---------------------------- MODULE Spec2Model ----------------------------
(***************************************************************************)
(* Model of the token contract in src/src/contract.rs: the ledger          *)
(* (balances, allowances, total supply), the viewing keys, the init entry   *)
(* point, the handle entry point with its handlers and the query entry     *)
(* point with its viewing-key gate.                                        *)
(*                                                                         *)
(* The contract keeps no state of its own: every entry point reads and     *)
(* writes the host's key-value storage.  An entry point that returns Err,  *)
(* or that panics, has its writes discarded by the host; an entry point    *)
(* that returns Ok has them committed together with its response.          *)
(*                                                                         *)
(* u128 is modelled by the integers 0 .. Modulus-1 with Modulus = 2^Width  *)
(* standing for 2^128.  An arithmetic overflow panics when the build has   *)
(* overflow checks and wraps modulo 2^128 when it has none: the variable   *)
(* overflow_checks fixes which build is running.                           *)
(*                                                                         *)
(* Every record constructor lists its fields in the order in which the     *)
(* field names first occur in this module.  That is the order TLC keeps    *)
(* records in, so no record is reordered while two workers read it.        *)
(***************************************************************************)
EXTENDS Integers, Sequences, FiniteSets, TLC

VARIABLES
    storage,          \* the host's committed key-value storage
    phase,            \* "uninit", then "ready" after init succeeded or "failed"
    overflow_checks,  \* TRUE: overflow panics; FALSE: overflow wraps
    last,             \* the invocation just finished: its call, the storage it
                      \* started from and its outcome
    ncalls,           \* number of handle invocations so far
    issued,           \* per account, the plaintext keys its successful
                      \* create_key and valid set_key calls stored, oldest first
    granted           \* per owner and spender, the amount of the last
                      \* successful approve and the total of the successful
                      \* transfer_from calls of the spender since

vars == <<storage, phase, overflow_checks, last, ncalls, issued, granted>>

---------------------------------------------------------------------------
(* Bounds of the model *)

Width == 3        \* bits of the modelled u128
MaxRows == 2      \* rows of initial_balances in an InitMsg
MaxCalls == 2     \* handle invocations in one behaviour
KeyLength == 2    \* characters of a valid viewing key (API_KEY_LENGTH)
MaxGrantCalls == 4  \* handle invocations in one behaviour of the allowances

Modulus == 2 ^ Width
MaxU128 == Modulus - 1

U128Len == 16     \* bytes of a stored u128
HashLen == 24     \* bytes of a stored viewing-key hash and of the placeholder

Accounts == {"A", "B", "C"}
ContractAddr == "contract"
NoAddr == "none"
Creator == "creator"

\* amounts a message or a coin can carry
Amounts == {0, 1, MaxU128}

---------------------------------------------------------------------------
(* Option values *)

None == <<>>
Some(x) == <<x>>
IsSome(o) == Len(o) = 1
Unwrap(o) == o[1]

---------------------------------------------------------------------------
(* u128 arithmetic and encoding *)

\* x += y on u128
add_u128(x, y) ==
    IF x + y <= MaxU128 THEN [panic |-> FALSE, v |-> x + y]
    ELSE IF overflow_checks THEN [panic |-> TRUE, v |-> 0]
    ELSE [panic |-> FALSE, v |-> (x + y) % Modulus]

\* x -= y on u128
sub_u128(x, y) ==
    IF x >= y THEN [panic |-> FALSE, v |-> x - y]
    ELSE IF overflow_checks THEN [panic |-> TRUE, v |-> 0]
    ELSE [panic |-> FALSE, v |-> (x - y) % Modulus]

\* the 16 bytes of v, most significant first
be_bytes(v) ==
    [i \in 1 .. U128Len |->
        IF U128Len - i > 3 THEN 0 ELSE (v \div (256 ^ (U128Len - i))) % 256]

\* the value of a byte string read as a big-endian number
RECURSIVE be_value(_, _, _)
be_value(bytes, i, acc) ==
    IF i > Len(bytes) THEN acc
    ELSE be_value(bytes, i + 1, acc * 256 + bytes[i])

\* the encodings of the modelled u128 values, tabulated
Encoded == [v \in 0 .. MaxU128 |-> be_bytes(v)]
Decoded == [b \in { Encoded[v] : v \in 0 .. MaxU128 } |-> be_value(b, 1, 0)]

\* u128::to_be_bytes
to_be_bytes(v) == IF v \in DOMAIN Encoded THEN Encoded[v] ELSE be_bytes(v)

\* u128::from_be_bytes
from_be_bytes(bytes) ==
    IF bytes \in DOMAIN Decoded THEN Decoded[bytes] ELSE be_value(bytes, 1, 0)

\* data[0..16] panics on a slice shorter than 16 bytes; the conversion of the
\* 16-byte slice to [u8; 16] cannot fail.
bytes_to_u128(data) ==
    IF Len(data) < U128Len THEN [panic |-> TRUE, v |-> 0]
    ELSE [panic |-> FALSE,
          v |-> from_be_bytes(IF Len(data) = U128Len THEN data
                              ELSE SubSeq(data, 1, U128Len))]

\* store.get(key): None reads as zero
read_u128(slot) ==
    IF IsSome(slot) THEN bytes_to_u128(Unwrap(slot))
    ELSE [panic |-> FALSE, v |-> 0]

---------------------------------------------------------------------------
(* Storage namespaces *)

EmptyStorage ==
    [balances     |-> [a \in Accounts |-> None],
     allowances   |-> [o \in Accounts |-> [s \in Accounts |-> None]],
     constants    |-> None,
     total_supply |-> None,
     transfers    |-> [a \in Accounts |-> <<>>],
     viewing_keys |-> [a \in Accounts |-> None]]

read_balance(store, owner) == read_u128(store.balances[owner])

\* read_allowance with the owner and spender prefixes exchanged
read_allowance_swapped(store, owner, spender) ==
    read_u128(store.allowances[spender][owner])

read_allowance(store, owner, spender) ==
    read_u128(store.allowances[owner][spender])

write_allowance(store, owner, spender, amount) ==
    [store EXCEPT !.allowances[owner][spender] = Some(to_be_bytes(amount))]

set_balance(store, owner, amount) ==
    [store EXCEPT !.balances[owner] = Some(to_be_bytes(amount))]

set_total_supply(store, amount) ==
    [store EXCEPT !.total_supply = Some(to_be_bytes(amount))]

read_constants(store) ==
    IF IsSome(store.constants)
    THEN [panic |-> FALSE, v |-> Unwrap(store.constants)]
    ELSE [panic |-> TRUE, v |-> None]

\* the transfer-history component: one entry for the sender, one for the
\* recipient
store_transfer(store, from, to, amount, symbol) ==
    LET s1 == [store EXCEPT !.transfers[from] =
                  Append(@, [amount |-> amount, symbol |-> symbol, counterparty |-> to])]
    IN  [s1 EXCEPT !.transfers[to] =
                  Append(@, [amount |-> amount, symbol |-> symbol, counterparty |-> from])]

---------------------------------------------------------------------------
(* Viewing keys.  The viewing_key and utils modules are not part of the     *)
(* source tree at hand: ViewingKey and its helpers follow the description   *)
(* of the viewing-key subsystem.  A key is a string over the characters 0   *)
(* and 1; KeyLength stands for API_KEY_LENGTH.                              *)

\* ViewingKey::is_valid: the key has exactly API_KEY_LENGTH characters
is_valid(key) == Len(key) = KeyLength

\* the number a key spells, first character most significant
RECURSIVE key_value(_, _, _)
key_value(key, i, acc) ==
    IF i > Len(key) THEN acc ELSE key_value(key, i + 1, acc * 2 + key[i])

\* the salted hash of a key: HashLen bytes, different for different keys and
\* never the all-zero string
create_hashed_password(s1) ==
    [i \in 1 .. HashLen |->
        IF i = HashLen THEN key_value(s1, 1, 0) % 256
        ELSE IF i = HashLen - 1 THEN Len(s1) + 1
        ELSE 0]

\* constant-time comparison: every position of the fixed-size buffer s1 is
\* compared, s2 padded or truncated to its size; a length mismatch is a
\* mismatch.  lens are the lengths of the two buffers handed in.
ct_slice_compare(s1, s2) ==
    [eq   |-> /\ Len(s1) = Len(s2)
              /\ \A i \in 1 .. Len(s1) : s1[i] = s2[i],
     lens |-> <<Len(s1), Len(s2)>>]

\* ViewingKey::check_viewing_key
check_viewing_key(key, hashed_pw) ==
    ct_slice_compare(create_hashed_password(key), hashed_pw)

\* ViewingKey::to_hashed
to_hashed(key) == create_hashed_password(key)

AddrRank(a) == CASE a = "A" -> 0 [] a = "B" -> 1 [] OTHER -> 2

\* ViewingKey::new: a key of the valid length derived from the caller's
\* identity and the entropy of the message
ViewingKey_new(env, entropy) ==
    [i \in 1 .. KeyLength |->
        ((AddrRank(env.sender) + entropy) \div (2 ^ (KeyLength - i))) % 2]

\* write_viewing_key that leaves the owner's record the only one
write_viewing_key_exclusive(store, owner, key) ==
    [store EXCEPT !.viewing_keys =
        [a \in Accounts |-> IF a = owner THEN Some(to_hashed(key)) ELSE None]]

write_viewing_key(store, owner, key) ==
    [store EXCEPT !.viewing_keys[owner] = Some(to_hashed(key))]

read_viewing_key(store, owner) == store.viewing_keys[owner]

\* get_transfers of the transfer-history component
get_transfers(store, address) == store.transfers[address]

---------------------------------------------------------------------------
(* Results of an entry point *)

\* log carries the log attributes of the viewing-key handlers; the attributes
\* the ledger handlers log (action, account, amount) are left out
Response(store, messages, log) ==
    [store |-> store, messages |-> messages, log |-> log, ok |-> TRUE, err |-> ""]
Ok(store, messages) == Response(store, messages, <<>>)
Err(store, kind) ==
    [store |-> store, messages |-> <<>>, log |-> <<>>, ok |-> FALSE, err |-> kind]
Panic(store) == Err(store, "Panic")


---------------------------------------------------------------------------
(* init *)

is_valid_name(name) == ~(Len(name) < 3 \/ Len(name) > 30)

is_valid_symbol(symbol) ==
    /\ ~(Len(symbol) < 3 \/ Len(symbol) > 6)
    /\ \A i \in 1 .. Len(symbol) : ~(symbol[i] < 65 \/ symbol[i] > 90)

\* the loop over msg.initial_balances: every row overwrites the balance of
\* its address and is added to the running total
RECURSIVE init_balances(_, _, _)
init_balances(store, rows, total_supply) ==
    IF rows = <<>> THEN [panic |-> FALSE, v |-> total_supply, store |-> store]
    ELSE LET row == Head(rows)
             s1  == set_balance(store, row.address, row.amount)
             sum == add_u128(total_supply, row.amount)
         IN  IF sum.panic THEN [panic |-> TRUE, v |-> 0, store |-> s1]
             ELSE init_balances(s1, Tail(rows), sum.v)

init(store, msg) ==
    LET r == init_balances(store, msg.initial_balances, 0)
    IN  IF r.panic THEN Panic(r.store)
        ELSE IF ~is_valid_name(msg.name) THEN Err(r.store, "InvalidFormat")
        ELSE IF ~is_valid_symbol(msg.symbol) THEN Err(r.store, "InvalidFormat")
        ELSE IF msg.decimals > 18 THEN Err(r.store, "InvalidFormat")
        ELSE LET s1 == [r.store EXCEPT !.constants =
                           Some([symbol |-> msg.symbol, name |-> msg.name,
                                 decimals |-> msg.decimals])]
             IN  Ok(set_total_supply(s1, r.v), <<>>)

---------------------------------------------------------------------------
(* handlers *)

\* config_store.get(KEY_TOTAL_SUPPLY).expect(..) and bytes_to_u128(..).unwrap()
read_total_supply(store) ==
    IF ~IsSome(store.total_supply) THEN [panic |-> TRUE, v |-> 0]
    ELSE bytes_to_u128(Unwrap(store.total_supply))

\* the loop over env.message.sent_funds: the amount of the last "uscrt" coin
RECURSIVE uscrt_amount(_, _)
uscrt_amount(sent_funds, amount_raw) ==
    IF sent_funds = <<>> THEN amount_raw
    ELSE LET coin == Head(sent_funds)
         IN  uscrt_amount(Tail(sent_funds),
                          IF coin.denom = "uscrt" THEN coin.amount ELSE amount_raw)

\* Err "Lol send some funds dude" is the ZeroDeposit failure
try_deposit(store, env) ==
    LET amount == uscrt_amount(env.sent_funds, 0)
    IN  IF amount = 0 THEN Err(store, "ZeroDeposit")
        ELSE
        LET account_balance == read_balance(store, env.sender)
        IN  IF account_balance.panic THEN Panic(store)
            ELSE
            LET new_balance == add_u128(account_balance.v, amount)
            IN  IF new_balance.panic THEN Panic(store)
                ELSE
                LET s1 == set_balance(store, env.sender, new_balance.v)
                    total_supply == read_total_supply(s1)
                IN  IF total_supply.panic THEN Panic(s1)
                    ELSE
                    LET new_supply == add_u128(total_supply.v, amount)
                    IN  IF new_supply.panic THEN Panic(s1)
                        ELSE Ok(set_total_supply(s1, new_supply.v), <<>>)

\* Err "insufficient funds to burn: .." is the InsufficientFunds failure
try_withdraw(store, env, amount) ==
    LET account_balance == read_balance(store, env.sender)
    IN  IF account_balance.panic THEN Panic(store)
        ELSE IF account_balance.v < amount THEN Err(store, "InsufficientFunds")
        ELSE
        LET s1 == set_balance(store, env.sender, account_balance.v - amount)
            total_supply == read_total_supply(s1)
        IN  IF total_supply.panic THEN Panic(s1)
            ELSE
            LET new_supply == sub_u128(total_supply.v, amount)
            IN  IF new_supply.panic THEN Panic(s1)
                ELSE Ok(set_total_supply(s1, new_supply.v),
                        << [amount |-> <<[amount |-> amount, denom |-> "uscrt"]>>,
                            from_address |-> env.contract,
                            to_address |-> env.sender] >>)

\* try_burn without the sufficiency check
try_burn_unchecked(store, env, amount) ==
    LET account_balance == read_balance(store, env.sender)
    IN  IF account_balance.panic THEN Panic(store)
        ELSE
        LET new_balance == sub_u128(account_balance.v, amount)
        IN  IF new_balance.panic THEN Panic(store)
            ELSE
            LET s1 == set_balance(store, env.sender, new_balance.v)
                total_supply == read_total_supply(s1)
            IN  IF total_supply.panic THEN Panic(s1)
                ELSE
                LET new_supply == sub_u128(total_supply.v, amount)
                IN  IF new_supply.panic THEN Panic(s1)
                    ELSE Ok(set_total_supply(s1, new_supply.v), <<>>)

\* Err "insufficient funds to burn: .." is the InsufficientFunds failure
try_burn(store, env, amount) ==
    LET account_balance == read_balance(store, env.sender)
    IN  IF account_balance.panic THEN Panic(store)
        ELSE IF account_balance.v < amount THEN Err(store, "InsufficientFunds")
        ELSE
        LET s1 == set_balance(store, env.sender, account_balance.v - amount)
            total_supply == read_total_supply(s1)
        IN  IF total_supply.panic THEN Panic(s1)
            ELSE
            LET new_supply == sub_u128(total_supply.v, amount)
            IN  IF new_supply.panic THEN Panic(s1)
                ELSE Ok(set_total_supply(s1, new_supply.v), <<>>)

\* perform_transfer that reads both balances before it writes either
perform_transfer_stale(store, from, to, amount) ==
    LET from_balance == read_balance(store, from)
        to_balance == read_balance(store, to)
    IN  IF from_balance.panic \/ to_balance.panic THEN Panic(store)
        ELSE IF from_balance.v < amount THEN Err(store, "InsufficientFunds")
        ELSE
        LET s1 == set_balance(store, from, from_balance.v - amount)
            new_balance == add_u128(to_balance.v, amount)
        IN  IF new_balance.panic THEN Panic(s1)
            ELSE Ok(set_balance(s1, to, new_balance.v), <<>>)

\* Err "Insufficient funds: .." is the InsufficientFunds failure
perform_transfer(store, from, to, amount) ==
    LET from_balance == read_balance(store, from)
    IN  IF from_balance.panic THEN Panic(store)
        ELSE IF from_balance.v < amount THEN Err(store, "InsufficientFunds")
        ELSE
        LET s1 == set_balance(store, from, from_balance.v - amount)
            to_balance == read_balance(s1, to)
        IN  IF to_balance.panic THEN Panic(s1)
            ELSE
            LET new_balance == add_u128(to_balance.v, amount)
            IN  IF new_balance.panic THEN Panic(s1)
                ELSE Ok(set_balance(s1, to, new_balance.v), <<>>)

try_transfer(store, env, recipient, amount) ==
    LET r == perform_transfer(store, env.sender, recipient, amount)
    IN  IF ~r.ok THEN r
        ELSE
        LET consts == read_constants(r.store)
        IN  IF consts.panic THEN Panic(r.store)
            ELSE Ok(store_transfer(r.store, env.sender, recipient, amount,
                                   consts.v.symbol), <<>>)

\* try_transfer_from that drops the result of perform_transfer instead of
\* propagating its error
try_transfer_from_ignoring_failure(store, env, owner, recipient, amount) ==
    LET allowance == read_allowance(store, owner, env.sender)
    IN  IF allowance.panic THEN Panic(store)
        ELSE IF allowance.v < amount THEN Err(store, "InsufficientAllowance")
        ELSE
        LET s1 == write_allowance(store, owner, env.sender, allowance.v - amount)
            r  == perform_transfer(s1, owner, recipient, amount)
            s2 == IF r.ok THEN r.store ELSE s1
            consts == read_constants(s2)
        IN  IF consts.panic THEN Panic(s2)
            ELSE Ok(store_transfer(s2, owner, recipient, amount, consts.v.symbol), <<>>)

\* try_transfer_from that checks the allowance and leaves it as it was
try_transfer_from_unmetered(store, env, owner, recipient, amount) ==
    LET allowance == read_allowance(store, owner, env.sender)
    IN  IF allowance.panic THEN Panic(store)
        ELSE IF allowance.v < amount THEN Err(store, "InsufficientAllowance")
        ELSE
        LET s1 == store
            r  == perform_transfer(s1, owner, recipient, amount)
        IN  IF ~r.ok THEN r
            ELSE
            LET consts == read_constants(r.store)
            IN  IF consts.panic THEN Panic(r.store)
                ELSE Ok(store_transfer(r.store, owner, recipient, amount,
                                       consts.v.symbol), <<>>)

\* Err "Insufficient allowance: .." is the InsufficientAllowance failure
try_transfer_from(store, env, owner, recipient, amount) ==
    LET allowance == read_allowance(store, owner, env.sender)
    IN  IF allowance.panic THEN Panic(store)
        ELSE IF allowance.v < amount THEN Err(store, "InsufficientAllowance")
        ELSE
        LET s1 == write_allowance(store, owner, env.sender, allowance.v - amount)
            r  == perform_transfer(s1, owner, recipient, amount)
        IN  IF ~r.ok THEN r
            ELSE
            LET consts == read_constants(r.store)
            IN  IF consts.panic THEN Panic(r.store)
                ELSE Ok(store_transfer(r.store, owner, recipient, amount,
                                       consts.v.symbol), <<>>)

\* try_approve that adds the amount to the stored allowance
try_approve_additive(store, env, spender, amount) ==
    LET allowance == read_allowance(store, env.sender, spender)
        new_allowance == add_u128(allowance.v, amount)
    IN  IF allowance.panic \/ new_allowance.panic THEN Panic(store)
        ELSE Ok(write_allowance(store, env.sender, spender, new_allowance.v), <<>>)

try_approve(store, env, spender, amount) ==
    Ok(write_allowance(store, env.sender, spender, amount), <<>>)

\* 10.pow(decimals) on u32: 10^9 is the largest power below 2^32.  v is the
\* exponent; wrapped says that the power was reduced modulo 2^32.
pow_u32(decimals) ==
    IF decimals <= 9 THEN [panic |-> FALSE, v |-> decimals, wrapped |-> FALSE]
    ELSE IF overflow_checks THEN [panic |-> TRUE, v |-> 0, wrapped |-> FALSE]
    ELSE [panic |-> FALSE, v |-> decimals, wrapped |-> TRUE]

\* the text "<amount / denominator> <symbol>", kept as its parts: the amount,
\* the exponent of the denominator, whether the denominator wrapped, the symbol
to_display_token(amount, symbol, decimals) ==
    LET denominator == pow_u32(decimals)
    IN  IF denominator.panic THEN [panic |-> TRUE, v |-> <<>>]
        ELSE [panic |-> FALSE,
              v |-> <<amount, denominator.v, denominator.wrapped, symbol>>]

get_balance(store, account) ==
    LET account_balance == read_balance(store, account)
        consts == read_constants(store)
    IN  IF account_balance.panic \/ consts.panic THEN [panic |-> TRUE, v |-> <<>>]
        ELSE to_display_token(account_balance.v, consts.v.symbol, consts.v.decimals)

\* the Balance handler: answers in its log and writes nothing
try_balance(store, env) ==
    LET account_balance == get_balance(store, env.sender)
    IN  IF account_balance.panic THEN Panic(store)
        ELSE Response(store, <<>>, << <<"action", "balance">>,
                                      <<"amount", account_balance.v>> >>)

\* the Allowance handler: answers in its log and writes nothing
try_check_allowance(store, env, spender) ==
    LET allowance == read_allowance(store, env.sender, spender)
    IN  IF allowance.panic THEN Panic(store)
        ELSE Response(store, <<>>, << <<"action", "check_allowance">>,
                                      <<"amount", allowance.v>> >>)

\* try_set_key that stores the key whatever its length
try_set_key_any_length(store, env, key) ==
    Response(write_viewing_key(store, env.sender, key), <<>>,
             << <<"result", "success">>, <<"viewing key", key>> >>)

try_set_key(store, env, key) ==
    IF ~is_valid(key)
    THEN Response(store, <<>>,
                  << <<"result", "failed!">>,
                     <<"viewing key", "viewing key must be a string exactly {} characters!">> >>)
    ELSE Response(write_viewing_key(store, env.sender, key), <<>>,
                  << <<"result", "success">>, <<"viewing key", key>> >>)

\* try_create_key that answers with the new key and does not store it
try_create_key_unstored(store, env, entropy) ==
    LET vk == ViewingKey_new(env, entropy)
    IN  Response(store, <<>>, << <<"viewing key", vk>> >>)

try_create_key(store, env, entropy) ==
    LET vk == ViewingKey_new(env, entropy)
    IN  Response(write_viewing_key(store, env.sender, vk), <<>>,
                 << <<"viewing key", vk>> >>)

handle(store, env, msg) ==
    CASE msg.type = "Withdraw"     -> try_withdraw(store, env, msg.amount)
      [] msg.type = "Deposit"      -> try_deposit(store, env)
      [] msg.type = "Balance"      -> try_balance(store, env)
      [] msg.type = "Allowance"    -> try_check_allowance(store, env, msg.spender)
      [] msg.type = "Approve"      -> try_approve(store, env, msg.spender, msg.amount)
      [] msg.type = "Transfer"     -> try_transfer(store, env, msg.recipient, msg.amount)
      [] msg.type = "TransferFrom" ->
             try_transfer_from(store, env, msg.owner, msg.recipient, msg.amount)
      [] msg.type = "Burn"         -> try_burn(store, env, msg.amount)
      [] msg.type = "CreateViewingKey" -> try_create_key(store, env, msg.entropy)
      [] msg.type = "SetViewingKey"    -> try_set_key(store, env, msg.key)

\* the host keeps the writes of an invocation that returned Ok and discards
\* those of one that returned Err or panicked
host_commit(store, r) == IF r.ok THEN r.store ELSE store

---------------------------------------------------------------------------
(* query *)

\* [0u8; 24]
Placeholder == [i \in 1 .. HashLen |-> 0]

DenialPayload == "Wrong viewing key for this address or viewing key not set"

\* a payload: a text and the values formatted into it
Binary(text, value) == [text |-> text, value |-> value]

NoData == Binary("", <<>>)

\* the outcome of a query: its payload, the read accessor it ran and the
\* buffer lengths of the key comparisons it made, in order
QueryOk(data, accessor, cmp) ==
    [data |-> data, ok |-> TRUE, err |-> "", accessor |-> accessor, cmp |-> cmp]
QueryPanic(accessor, cmp) ==
    [data |-> NoData, ok |-> FALSE, err |-> "Panic", accessor |-> accessor,
     cmp |-> cmp]

query_balance(store, account, cmp) ==
    LET account_balance == get_balance(store, account)
    IN  IF account_balance.panic THEN QueryPanic("balance", cmp)
        ELSE QueryOk(Binary("{} {}", account_balance.v), "balance", cmp)

query_transactions(store, account, cmp) ==
    QueryOk(Binary("{:?}", get_transfers(store, account)), "transfers", cmp)

\* query that answers an account without a key at once
query_short_circuit(store, msg) ==
    LET expected_key == read_viewing_key(store, msg.address)
    IN  IF expected_key = None
        THEN QueryOk(Binary(DenialPayload, <<>>), "none", <<>>)
        ELSE
        LET key_check == check_viewing_key(msg.key, Unwrap(expected_key))
        IN  IF ~key_check.eq
            THEN QueryOk(Binary(DenialPayload, <<>>), "none", <<key_check.lens>>)
            ELSE CASE msg.type = "Balance" ->
                          query_balance(store, msg.address, <<key_check.lens>>)
                   [] msg.type = "Transfers" ->
                          query_transactions(store, msg.address, <<key_check.lens>>)
                   [] OTHER -> QueryPanic("none", <<key_check.lens>>)

\* query that unwraps the stored key before looking whether there is one
query_unwrap_first(store, msg) ==
    LET expected_key == read_viewing_key(store, msg.address)
    IN  IF expected_key = None THEN QueryPanic("none", <<>>)
        ELSE
        LET key_check == check_viewing_key(msg.key, Unwrap(expected_key))
        IN  IF ~key_check.eq
            THEN QueryOk(Binary(DenialPayload, <<>>), "none", <<key_check.lens>>)
            ELSE CASE msg.type = "Balance" ->
                          query_balance(store, msg.address, <<key_check.lens>>)
                   [] msg.type = "Transfers" ->
                          query_transactions(store, msg.address, <<key_check.lens>>)
                   [] OTHER -> QueryPanic("none", <<key_check.lens>>)

\* query without the key check of an account that has a key
query_unchecked(store, msg) ==
    LET expected_key == read_viewing_key(store, msg.address)
        placeholder_check == check_viewing_key(msg.key, Placeholder)
    IN  IF expected_key = None /\ ~placeholder_check.eq
        THEN QueryOk(Binary(DenialPayload, <<>>), "none", <<placeholder_check.lens>>)
        ELSE IF expected_key = None
        THEN QueryPanic("none", <<placeholder_check.lens>>)
        ELSE CASE msg.type = "Balance" -> query_balance(store, msg.address, <<>>)
               [] msg.type = "Transfers" ->
                      query_transactions(store, msg.address, <<>>)
               [] OTHER -> QueryPanic("none", <<>>)

\* an account without a key is checked against the placeholder and denied; were
\* the placeholder to match, expected_key.unwrap() would panic on None.  Any
\* other QueryMsg reaches unimplemented!().
query(store, msg) ==
    LET expected_key == read_viewing_key(store, msg.address)
        placeholder_check == check_viewing_key(msg.key, Placeholder)
    IN  IF expected_key = None /\ ~placeholder_check.eq
        THEN QueryOk(Binary(DenialPayload, <<>>), "none", <<placeholder_check.lens>>)
        ELSE IF expected_key = None
        THEN QueryPanic("none", <<placeholder_check.lens>>)
        ELSE
        LET key_check == check_viewing_key(msg.key, Unwrap(expected_key))
        IN  IF ~key_check.eq
            THEN QueryOk(Binary(DenialPayload, <<>>), "none", <<key_check.lens>>)
            ELSE CASE msg.type = "Balance" ->
                          query_balance(store, msg.address, <<key_check.lens>>)
                   [] msg.type = "Transfers" ->
                          query_transactions(store, msg.address, <<key_check.lens>>)
                   [] OTHER -> QueryPanic("none", <<key_check.lens>>)

---------------------------------------------------------------------------
(* Inputs *)

Names == { <<84, 111>>, <<84, 111, 107>> }                    \* "To", "Tok"
Symbols == { <<84, 83, 84>>, <<84, 83>>, <<116, 115, 116>> }  \* "TST", "TS", "tst"
DecimalsSet == {6, 19}

\* amounts a row of initial_balances can carry
InitAmounts == {1, MaxU128}

\* accounts are interchangeable: rows naming A and B cover, up to renaming,
\* every list of at most MaxRows rows that leaves one account without a row
Holders == {"A", "B"}
Holders_at(i) == IF i = 1 THEN "A" ELSE "B"

Rows == [amount : InitAmounts, address : Holders]
RowLists == UNION { [1 .. n -> Rows] : n \in 0 .. MaxRows }

InitMsgs ==
    [symbol : Symbols, name : Names, initial_balances : RowLists,
     decimals : DecimalsSet]

\* the host attaches at most one coin of each denomination
OtherCoin == [amount |-> 1, denom |-> "other"]
UscrtCoin(a) == [amount |-> a, denom |-> "uscrt"]
FundsSet ==
    {<<>>, <<OtherCoin>>, <<OtherCoin, UscrtCoin(1)>>, <<UscrtCoin(1), OtherCoin>>}
    \cup { <<UscrtCoin(a)>> : a \in Amounts }

Env(sender, sent_funds) ==
    [sender |-> sender, sent_funds |-> sent_funds, contract |-> ContractAddr]

NoMsg == [type |-> "None"]

\* keys of the valid length, one key too short and one too long
ValidKeys == [1 .. KeyLength -> {0, 1}]
CandidateKeys ==
    ValidKeys \cup {[i \in 1 .. KeyLength - 1 |-> 0], [i \in 1 .. KeyLength + 1 |-> 0]}

Entropies == {0, 1}

\* the instantiations the viewing-key behaviours start from
KeyInitMsgs ==
    { m \in InitMsgs :
        /\ m.symbol = <<84, 83, 84>>
        /\ m.decimals = 6
        /\ \A i \in 1 .. Len(m.initial_balances) :
              /\ m.initial_balances[i].address = Holders_at(i)
              /\ m.initial_balances[i].amount = 1 \/ i = 2 }

\* the ledger messages of the viewing-key behaviours
LedgerAmounts == {1, MaxU128}
LedgerMsgs ==
    {[type |-> "Deposit"], [type |-> "Balance"]}
    \cup { [amount |-> a, type |-> y] : a \in LedgerAmounts, y \in {"Withdraw", "Burn"} }
    \cup { [spender |-> s, type |-> "Allowance"] : s \in Holders }
    \cup { [spender |-> s, amount |-> a, type |-> "Approve"] :
               s \in Holders, a \in LedgerAmounts }
    \cup { [amount |-> a, recipient |-> r, type |-> "Transfer"] :
               a \in LedgerAmounts, r \in Holders }
    \cup { [owner |-> o, amount |-> a, recipient |-> r, type |-> "TransferFrom"] :
               o \in Holders, a \in LedgerAmounts, r \in Accounts }

---------------------------------------------------------------------------
(* The state machine *)

\* the amount a successful transfer_from took out of the owner's balance:
\* the drop of that balance, or the amount debited and credited back when the
\* owner is the recipient
debited(pre, post, msg) ==
    IF msg.owner = msg.recipient THEN msg.amount
    ELSE read_balance(pre, msg.owner).v - read_balance(post, msg.owner).v

\* no approve of the pair has succeeded yet
NoGrant == [x |-> 0, approved |-> FALSE, moved |-> 0]

NoCall ==
    [data |-> NoData, env |-> Env(NoAddr, <<>>), messages |-> <<>>, log |-> <<>>,
     ok |-> TRUE, err |-> "", msg |-> NoMsg,
     accessor |-> "none", cmp |-> <<>>, pre |-> EmptyStorage, entry |-> "none"]

Init ==
    /\ storage = EmptyStorage
    /\ phase = "uninit"
    /\ overflow_checks \in BOOLEAN
    /\ last = NoCall
    /\ ncalls = 0
    /\ issued = [a \in Accounts |-> <<>>]
    /\ granted = [o \in Accounts |-> [s \in Accounts |-> NoGrant]]

\* one invocation of init by the host; a failed instantiation leaves no
\* contract behind
Instantiate ==
    /\ phase = "uninit"
    /\ \E msg \in InitMsgs :
          \E r \in {init(storage, msg)} :
              /\ storage' = host_commit(storage, r)
              /\ phase' = IF r.ok THEN "ready" ELSE "failed"
              /\ last' = [data |-> NoData, env |-> Env(Creator, <<>>), messages |-> r.messages,
                          log |-> r.log, ok |-> r.ok,
                          err |-> r.err, msg |-> msg,
                          accessor |-> "none", cmp |-> <<>>,
                          pre |-> storage, entry |-> "init"]
    /\ UNCHANGED <<overflow_checks, ncalls, issued, granted>>

\* the host starts an invocation of handle only on an instantiated contract
\* and after the invocation before it has finished
CanInvoke ==
    /\ phase = "ready"
    /\ last = NoCall
    /\ ncalls < MaxCalls

\* one invocation of handle by the host
Invoke(env, msg) ==
    /\ \E r \in {handle(storage, env, msg)} :
           /\ storage' = host_commit(storage, r)
           /\ last' = [data |-> NoData, env |-> env, messages |-> r.messages,
                       log |-> r.log, ok |-> r.ok,
                       err |-> r.err, msg |-> msg,
                       accessor |-> "none", cmp |-> <<>>,
                       pre |-> storage, entry |-> "handle"]
           /\ issued' =
                 IF r.ok /\ msg.type = "SetViewingKey" /\ Len(msg.key) = KeyLength
                 THEN [issued EXCEPT ![env.sender] = Append(@, msg.key)]
                 ELSE IF r.ok /\ msg.type = "CreateViewingKey"
                 THEN [issued EXCEPT ![env.sender] = Append(@, r.log[1][2])]
                 ELSE issued
           /\ granted' =
                 IF r.ok /\ msg.type = "Approve"
                 THEN [granted EXCEPT ![env.sender][msg.spender] =
                           [x |-> msg.amount, approved |-> TRUE, moved |-> 0]]
                 ELSE IF r.ok /\ msg.type = "TransferFrom"
                 THEN [granted EXCEPT ![msg.owner][env.sender].moved =
                           @ + debited(storage, host_commit(storage, r), msg)]
                 ELSE granted
    /\ ncalls' = ncalls + 1
    /\ UNCHANGED <<phase, overflow_checks>>

\* the host hands the response of the finished invocation to its caller and
\* is ready for the next one
Deliver ==
    /\ phase = "ready"
    /\ last # NoCall
    /\ ncalls < MaxCalls
    /\ last' = NoCall
    /\ UNCHANGED <<storage, phase, overflow_checks, ncalls, issued, granted>>

Deposit ==
    /\ CanInvoke
    /\ \E sender \in Accounts, funds \in FundsSet :
          Invoke(Env(sender, funds), [type |-> "Deposit"])

Withdraw ==
    /\ CanInvoke
    /\ \E sender \in Accounts, amount \in Amounts :
          Invoke(Env(sender, <<>>), [amount |-> amount, type |-> "Withdraw"])

Burn ==
    /\ CanInvoke
    /\ \E sender \in Accounts, amount \in Amounts :
          Invoke(Env(sender, <<>>), [amount |-> amount, type |-> "Burn"])

Transfer ==
    /\ CanInvoke
    /\ \E sender \in Accounts, recipient \in Accounts, amount \in Amounts :
          Invoke(Env(sender, <<>>),
                 [amount |-> amount, recipient |-> recipient, type |-> "Transfer"])

TransferFrom ==
    /\ CanInvoke
    /\ \E sender \in Accounts, owner \in Accounts, recipient \in Accounts,
          amount \in Amounts :
          Invoke(Env(sender, <<>>),
                 [owner |-> owner, amount |-> amount,
                  recipient |-> recipient, type |-> "TransferFrom"])

Approve ==
    /\ CanInvoke
    /\ \E sender \in Accounts, spender \in Accounts, amount \in Amounts :
          Invoke(Env(sender, <<>>),
                 [spender |-> spender, amount |-> amount, type |-> "Approve"])

Next ==
    \/ Instantiate
    \/ Deposit
    \/ Withdraw
    \/ Burn
    \/ Transfer
    \/ TransferFrom
    \/ Approve
    \/ Deliver

Spec == Init /\ [][Next]_vars

---------------------------------------------------------------------------
(* The behaviours of the viewing keys: the key handlers, the ledger         *)
(* handlers and the queries on a contract instantiated with a short list    *)
(* of balances.  A query writes nothing and does not count as a call.       *)

KeyInstantiate ==
    /\ phase = "uninit"
    /\ \E msg \in KeyInitMsgs :
          \E r \in {init(storage, msg)} :
              /\ storage' = host_commit(storage, r)
              /\ phase' = IF r.ok THEN "ready" ELSE "failed"
              /\ last' = [data |-> NoData, env |-> Env(Creator, <<>>), messages |-> r.messages,
                          log |-> r.log, ok |-> r.ok,
                          err |-> r.err, msg |-> msg,
                          accessor |-> "none", cmp |-> <<>>,
                          pre |-> storage, entry |-> "init"]
    /\ UNCHANGED <<overflow_checks, ncalls, issued, granted>>

SetViewingKey ==
    /\ CanInvoke
    /\ \E sender \in Accounts, key \in CandidateKeys :
          Invoke(Env(sender, <<>>), [key |-> key, type |-> "SetViewingKey"])

CreateViewingKey ==
    /\ CanInvoke
    /\ \E sender \in Accounts, entropy \in Entropies :
          Invoke(Env(sender, <<>>), [entropy |-> entropy, type |-> "CreateViewingKey"])

LedgerCall ==
    /\ CanInvoke
    /\ \E sender \in Accounts, msg \in LedgerMsgs :
          Invoke(Env(sender, IF msg.type = "Deposit" THEN <<UscrtCoin(1)>> ELSE <<>>),
                 msg)

\* one invocation of query by the host: no storage is written
Query ==
    /\ phase = "ready"
    /\ last = NoCall
    /\ \E address \in Accounts, key \in CandidateKeys, type \in {"Balance", "Transfers"} :
          \E msg \in {[key |-> key, address |-> address, type |-> type]} :
          \E r \in {query(storage, msg)} :
              last' = [data |-> r.data, env |-> Env(NoAddr, <<>>), messages |-> <<>>,
                       log |-> <<>>, ok |-> r.ok,
                       err |-> r.err, msg |-> msg,
                       accessor |-> r.accessor, cmp |-> r.cmp,
                       pre |-> storage, entry |-> "query"]
    /\ UNCHANGED <<storage, phase, overflow_checks, ncalls, issued, granted>>

\* the host hands the response of the finished invocation or query to its
\* caller
Respond ==
    /\ phase = "ready"
    /\ last # NoCall
    /\ last' = NoCall
    /\ UNCHANGED <<storage, phase, overflow_checks, ncalls, issued, granted>>

KeyNext ==
    \/ KeyInstantiate
    \/ SetViewingKey
    \/ CreateViewingKey
    \/ LedgerCall
    \/ Query
    \/ Respond

KeySpec == Init /\ [][KeyNext]_vars

---------------------------------------------------------------------------
(* The behaviours of the allowances: approvals, delegated transfers and     *)
(* the other ledger handlers on a contract whose one holder is "A".         *)

GrantInitMsgs ==
    { m \in InitMsgs :
        /\ m.symbol = <<84, 83, 84>>
        /\ m.name = <<84, 111, 107>>
        /\ m.decimals = 6
        /\ Len(m.initial_balances) = 1
        /\ m.initial_balances[1].address = "A" }

ApprovedAmounts == {0, 2, MaxU128}
MovedAmounts == {1, 2}
Owners == {"A", "B"}
Spenders == {"B", "C"}

\* the ledger messages of "A" that are neither approve nor transfer_from
OtherMsgs ==
    {[type |-> "Deposit"], [type |-> "Balance"],
     [amount |-> 1, type |-> "Withdraw"], [amount |-> 1, type |-> "Burn"],
     [spender |-> "B", type |-> "Allowance"],
     [amount |-> 1, recipient |-> "B", type |-> "Transfer"]}

CanGrant ==
    /\ phase = "ready"
    /\ last = NoCall
    /\ ncalls < MaxGrantCalls

GrantInstantiate ==
    /\ phase = "uninit"
    /\ \E msg \in GrantInitMsgs :
          \E r \in {init(storage, msg)} :
              /\ storage' = host_commit(storage, r)
              /\ phase' = IF r.ok THEN "ready" ELSE "failed"
              /\ last' = [data |-> NoData, env |-> Env(Creator, <<>>), messages |-> r.messages,
                          log |-> r.log, ok |-> r.ok,
                          err |-> r.err, msg |-> msg,
                          accessor |-> "none", cmp |-> <<>>,
                          pre |-> storage, entry |-> "init"]
    /\ UNCHANGED <<overflow_checks, ncalls, issued, granted>>

GrantApprove ==
    /\ CanGrant
    /\ \E sender \in Owners, spender \in Spenders, amount \in ApprovedAmounts :
          Invoke(Env(sender, <<>>),
                 [spender |-> spender, amount |-> amount, type |-> "Approve"])

GrantTransferFrom ==
    /\ CanGrant
    /\ \E sender \in Spenders, owner \in Owners, recipient \in {"A", "C"},
          amount \in MovedAmounts :
          Invoke(Env(sender, <<>>),
                 [owner |-> owner, amount |-> amount,
                  recipient |-> recipient, type |-> "TransferFrom"])

GrantOther ==
    /\ CanGrant
    /\ \E msg \in OtherMsgs :
          Invoke(Env("A", IF msg.type = "Deposit" THEN <<UscrtCoin(1)>> ELSE <<>>),
                 msg)

AllowanceNext ==
    \/ GrantInstantiate
    \/ GrantApprove
    \/ GrantTransferFrom
    \/ GrantOther
    \/ Respond

AllowanceSpec == Init /\ [][AllowanceNext]_vars

---------------------------------------------------------------------------
(* The reads of a stored integer, applied to byte strings of every length   *)
(* around 16: the same bytes sit in a balance slot, an allowance slot and   *)
(* the total-supply slot, and one read of one of them follows.              *)

\* n zero bytes followed by the byte b
ZerosThen(n, b) == [i \in 1 .. n + 1 |-> IF i = n + 1 THEN b ELSE 0]

StoredLens == {1, U128Len - 1, U128Len, U128Len + 1, U128Len + 2}
StoredBytes == { ZerosThen(n - 1, b) : n \in StoredLens, b \in {0, 1, MaxU128} }

DecodeInit ==
    /\ \E stored \in StoredBytes :
          storage = [EmptyStorage EXCEPT !.balances["A"] = Some(stored),
                                         !.allowances["A"]["B"] = Some(stored),
                                         !.total_supply = Some(stored)]
    /\ phase = "stored"
    /\ overflow_checks \in BOOLEAN
    /\ last = NoCall
    /\ ncalls = 0
    /\ issued = [a \in Accounts |-> <<>>]
    /\ granted = [o \in Accounts |-> [s \in Accounts |-> NoGrant]]

CanRead == phase = "stored"

\* the read has returned r
Returned(r, slot) ==
    /\ phase' = "read"
    /\ last' = [data |-> Binary(slot, <<r.v>>), env |-> Env(NoAddr, <<>>),
                messages |-> <<>>, log |-> <<>>, ok |-> ~r.panic,
                err |-> IF r.panic THEN "Panic" ELSE "", msg |-> NoMsg,
                accessor |-> "none", cmp |-> <<>>, pre |-> storage,
                entry |-> "read"]
    /\ UNCHANGED <<storage, overflow_checks, ncalls, issued, granted>>

ReadBalance ==
    /\ CanRead
    /\ Returned(read_balance(storage, "A"), "balance")

ReadAllowance ==
    /\ CanRead
    /\ Returned(read_allowance(storage, "A", "B"), "allowance")

ReadTotalSupply ==
    /\ CanRead
    /\ Returned(read_total_supply(storage), "total_supply")

DecodeNext ==
    \/ ReadBalance
    \/ ReadAllowance
    \/ ReadTotalSupply

DecodeSpec == DecodeInit /\ [][DecodeNext]_vars

---------------------------------------------------------------------------
(* Observations of the ledger *)

\* the number a slot holds; an absent slot counts as zero
StoredValue(slot) == IF slot = None THEN 0 ELSE be_value(Unwrap(slot), 1, 0)

balance(store, a) == StoredValue(store.balances[a])
allowance(store, o, s) == StoredValue(store.allowances[o][s])
TotalSupply(store) == StoredValue(store.total_supply)

RECURSIVE SumOver(_, _)
SumOver(f, S) ==
    IF S = {} THEN 0
    ELSE LET x == CHOOSE y \in S : TRUE IN f[x] + SumOver(f, S \ {x})

SumBalances(store) == SumOver([a \in Accounts |-> balance(store, a)], Accounts)

TypeOK ==
    /\ phase \in {"uninit", "failed", "ready", "stored", "read"}
    /\ ncalls \in 0 .. MaxCalls
    /\ \A a \in Accounts : balance(storage, a) \in 0 .. MaxU128
    /\ \A o, s \in Accounts : allowance(storage, o, s) \in 0 .. MaxU128

---------------------------------------------------------------------------
(* Vocabulary of the properties.  last.pre is the storage the finished      *)
(* invocation started from, storage the storage it left.                    *)

Call(type) == last.entry = "handle" /\ last.msg.type = type
Pre == last.pre
Sender == last.env.sender

BalancesUnchangedExcept(S) ==
    \A a \in Accounts \ S : balance(storage, a) = balance(Pre, a)

AllowancesUnchangedExcept(P) ==
    \A o, s \in Accounts :
        <<o, s>> \notin P => allowance(storage, o, s) = allowance(Pre, o, s)

SupplyUnchanged == TotalSupply(storage) = TotalSupply(Pre)

LedgerUnchanged ==
    /\ BalancesUnchangedExcept({})
    /\ AllowancesUnchangedExcept({})
    /\ SupplyUnchanged

\* the one payout instruction of a withdraw
Payout(account, n) ==
    [amount |-> <<[amount |-> n, denom |-> "uscrt"]>>,
     from_address |-> ContractAddr, to_address |-> account]

\* the native amount attached to a call: the amount of its "uscrt" coin
NativeAttached(funds) ==
    IF \E i \in 1 .. Len(funds) : funds[i].denom = "uscrt"
    THEN (CHOOSE c \in { funds[i] : i \in 1 .. Len(funds) } : c.denom = "uscrt").amount
    ELSE 0

---------------------------------------------------------------------------
(* Properties *)

\* C1: after a successful init and any sequence of deposit, withdraw, burn,
\* transfer and transfer_from, TotalSupply equals the sum of all balances in
\* the state left by every successfully completed invocation.
C1_SupplyEqualsSumOfBalances ==
    phase = "ready" => TotalSupply(storage) = SumBalances(storage)

\* C2: immediately after a successful init, TotalSupply equals the sum of the
\* stored balances and every listed account's balance is its initial amount.
C2_InitSupplyAndBalances ==
    (last.entry = "init" /\ last.ok) =>
        /\ TotalSupply(storage) = SumBalances(storage)
        /\ \A i \in 1 .. Len(last.msg.initial_balances) :
              balance(storage, last.msg.initial_balances[i].address)
                  = last.msg.initial_balances[i].amount

\* C3: withdraw, burn and transfer of more than the sender's balance fail with
\* InsufficientFunds and leave every balance, every allowance and TotalSupply
\* as they were.
C3_InsufficientFundsLeavesLedger ==
    \A type \in {"Withdraw", "Burn", "Transfer"} :
        (Call(type) /\ last.msg.amount > balance(Pre, Sender)) =>
            /\ ~last.ok
            /\ last.err = "InsufficientFunds"
            /\ LedgerUnchanged

C3_Witness ==
    /\ Call("Transfer")
    /\ last.msg.recipient # Sender
    /\ balance(Pre, Sender) > 0
    /\ last.msg.amount > balance(Pre, Sender)
    /\ \E o, s \in Accounts : allowance(Pre, o, s) > 0
    /\ last.err = "InsufficientFunds"

\* C4: transfer_from with enough allowance but too small an owner balance
\* fails and allowance(owner, spender) keeps the value it had before the call.
C4_FailedTransferFromKeepsAllowance ==
    (/\ Call("TransferFrom")
     /\ allowance(Pre, last.msg.owner, Sender) >= last.msg.amount
     /\ balance(Pre, last.msg.owner) < last.msg.amount) =>
        /\ ~last.ok
        /\ allowance(storage, last.msg.owner, Sender)
               = allowance(Pre, last.msg.owner, Sender)

C4_Witness ==
    /\ Call("TransferFrom")
    /\ allowance(Pre, last.msg.owner, Sender) >= last.msg.amount
    /\ balance(Pre, last.msg.owner) < last.msg.amount
    /\ ~last.ok
    /\ allowance(storage, last.msg.owner, Sender) = MaxU128

\* C5: transfer_from with allowance(owner, spender) < amount fails with
\* InsufficientAllowance; no balance, no allowance and not TotalSupply changes.
C5_InsufficientAllowanceAborts ==
    (/\ Call("TransferFrom")
     /\ allowance(Pre, last.msg.owner, Sender) < last.msg.amount) =>
        /\ ~last.ok
        /\ last.err = "InsufficientAllowance"
        /\ BalancesUnchangedExcept({})
        /\ AllowancesUnchangedExcept({})
        /\ TotalSupply(storage) = TotalSupply(Pre)

C5_Witness ==
    /\ Call("TransferFrom")
    /\ allowance(Pre, last.msg.owner, Sender) > 0
    /\ allowance(Pre, last.msg.owner, Sender) < last.msg.amount
    /\ balance(Pre, last.msg.owner) >= last.msg.amount
    /\ last.err = "InsufficientAllowance"

\* C6: a successful transfer_from with owner # recipient lowers
\* allowance(owner, spender) and balance(owner) by amount, raises
\* balance(recipient) by amount and changes nothing else of the ledger.
C6_TransferFromEffect ==
    (/\ Call("TransferFrom")
     /\ last.ok
     /\ last.msg.owner # last.msg.recipient) =>
        /\ allowance(storage, last.msg.owner, Sender)
               = allowance(Pre, last.msg.owner, Sender) - last.msg.amount
        /\ balance(storage, last.msg.owner)
               = balance(Pre, last.msg.owner) - last.msg.amount
        /\ balance(storage, last.msg.recipient)
               = balance(Pre, last.msg.recipient) + last.msg.amount
        /\ SupplyUnchanged
        /\ BalancesUnchangedExcept({last.msg.owner, last.msg.recipient})
        /\ AllowancesUnchangedExcept({<<last.msg.owner, Sender>>})

\* C7: a successful transfer with sender # recipient lowers balance(sender)
\* by amount, raises balance(recipient) by amount and leaves TotalSupply, all
\* allowances and all other balances unchanged.
C7_TransferEffect ==
    (/\ Call("Transfer")
     /\ last.ok
     /\ Sender # last.msg.recipient) =>
        /\ balance(storage, Sender) = balance(Pre, Sender) - last.msg.amount
        /\ balance(storage, last.msg.recipient)
               = balance(Pre, last.msg.recipient) + last.msg.amount
        /\ SupplyUnchanged
        /\ AllowancesUnchangedExcept({})
        /\ BalancesUnchangedExcept({Sender, last.msg.recipient})

\* C8: approve(owner, spender, X) succeeds and leaves allowance(owner, spender)
\* at X whatever it was before (X again and not 2X when it was X); no balance
\* and no other allowance changes.
C8_ApproveReplaces ==
    Call("Approve") =>
        /\ last.ok
        /\ allowance(storage, Sender, last.msg.spender) = last.msg.amount
        /\ BalancesUnchangedExcept({})
        /\ AllowancesUnchangedExcept({<<Sender, last.msg.spender>>})

\* the second of two identical approvals
C8_Witness ==
    /\ Call("Approve")
    /\ last.msg.amount > 0
    /\ allowance(Pre, Sender, last.msg.spender) = last.msg.amount
    /\ allowance(storage, Sender, last.msg.spender) = last.msg.amount

\* C9: a withdraw debits the sender's balance and TotalSupply by amount if
\* and only if its response carries exactly one payout of that amount from the
\* contract to the sender; a withdraw of more than the balance fails and
\* produces no payout.
C9_DebitIffPayout ==
    Call("Withdraw") =>
        /\ (/\ balance(storage, Sender) = balance(Pre, Sender) - last.msg.amount
            /\ TotalSupply(storage) = TotalSupply(Pre) - last.msg.amount)
           <=> (last.ok /\ last.messages = <<Payout(Sender, last.msg.amount)>>)
        /\ last.msg.amount > balance(Pre, Sender) =>
              (~last.ok /\ last.messages = <<>>)

\* C10: deposit with no native amount attached fails with ZeroDeposit and
\* changes no state; with a > 0 attached it raises balance(sender) and
\* TotalSupply by exactly a, changes nothing else and emits no message.
C10_DepositEffect ==
    Call("Deposit") =>
        LET a == NativeAttached(last.env.sent_funds)
        IN  /\ a = 0 => (~last.ok /\ last.err = "ZeroDeposit" /\ storage = Pre)
            /\ a > 0 =>
                  /\ last.ok
                  /\ balance(storage, Sender) = balance(Pre, Sender) + a
                  /\ TotalSupply(storage) = TotalSupply(Pre) + a
                  /\ BalancesUnchangedExcept({Sender})
                  /\ AllowancesUnchangedExcept({})
                  /\ storage.transfers = Pre.transfers
                  /\ storage.constants = Pre.constants
                  /\ last.messages = <<>>

\* the sum of the amounts of a list of initial_balances rows
RECURSIVE SumRows(_)
SumRows(rows) == IF rows = <<>> THEN 0 ELSE Head(rows).amount + SumRows(Tail(rows))

\* the call that has just finished failed with Overflow and wrote nothing
FailedWithOverflow == ~last.ok /\ last.err = "Overflow" /\ storage = Pre

\* C11: no addition on a balance or on TotalSupply wraps: the init sum of the
\* initial balances, the deposit credit to the balance and to TotalSupply and
\* the recipient credit of perform_transfer each fail with Overflow and leave
\* the state unchanged when the result would exceed 2^128 - 1.
C11_AdditionsFailWithOverflow ==
    /\ (last.entry = "init" /\ SumRows(last.msg.initial_balances) > MaxU128)
           => FailedWithOverflow
    /\ (/\ Call("Deposit")
        /\ NativeAttached(last.env.sent_funds) > 0
        /\ \/ balance(Pre, Sender) + NativeAttached(last.env.sent_funds) > MaxU128
           \/ TotalSupply(Pre) + NativeAttached(last.env.sent_funds) > MaxU128)
           => FailedWithOverflow
    /\ (/\ Call("Transfer")
        /\ Sender # last.msg.recipient
        /\ last.msg.amount <= balance(Pre, Sender)
        /\ balance(Pre, last.msg.recipient) + last.msg.amount > MaxU128)
           => FailedWithOverflow
    /\ (/\ Call("TransferFrom")
        /\ last.msg.owner # last.msg.recipient
        /\ last.msg.amount <= allowance(Pre, last.msg.owner, Sender)
        /\ last.msg.amount <= balance(Pre, last.msg.owner)
        /\ balance(Pre, last.msg.recipient) + last.msg.amount > MaxU128)
           => FailedWithOverflow

---------------------------------------------------------------------------
(* Vocabulary of the viewing-key properties *)

KeyRecord(store, a) == store.viewing_keys[a]
HasKey(store, a) == KeyRecord(store, a) # None

\* key verifies against the hash stored for account a
Verifies(store, a, key) == KeyRecord(store, a) = Some(create_hashed_password(key))

Queried == last.entry = "query"
Denied ==
    /\ last.ok
    /\ last.data.text = DenialPayload
    /\ last.data.value = <<>>
    /\ last.accessor = "none"
Authorized ==
    last.accessor = (IF last.msg.type = "Balance" THEN "balance" ELSE "transfers")

KeyCalls == {"SetViewingKey", "CreateViewingKey"}

\* C12: a query for (address, key) reaches the read accessor only if key
\* verifies against the hash stored for address; in every other case the gate
\* returns the one fixed denial payload, the same whether the account has no
\* key or another key, and runs no read accessor.
C12_GateBeforeAccessor ==
    (Queried /\ ~Verifies(Pre, last.msg.address, last.msg.key)) => Denied

\* a key of the valid length that is not the account's key
C12_Witness ==
    /\ Queried
    /\ HasKey(Pre, last.msg.address)
    /\ Len(last.msg.key) = KeyLength
    /\ ~Verifies(Pre, last.msg.address, last.msg.key)
    /\ balance(Pre, last.msg.address) > 0
    /\ last.data.text = DenialPayload

\* C13: for an account with no viewing key stored, a query with any candidate
\* key completes as a normal response carrying the denial payload; it never
\* returns the account's data and never aborts.
C13_UnsetKeyDenied ==
    (Queried /\ ~HasKey(Pre, last.msg.address)) =>
        /\ last.ok
        /\ last.err = ""
        /\ last.data = Binary(DenialPayload, <<>>)
        /\ last.accessor = "none"

C13_Witness ==
    /\ Queried
    /\ ~HasKey(Pre, last.msg.address)
    /\ Len(last.msg.key) = KeyLength
    /\ balance(Pre, last.msg.address) > 0
    /\ \E a \in Accounts : HasKey(Pre, a)
    /\ last.ok

\* C14: a denied query against an account with no key and a denied query
\* against an account with another key make the same key comparisons: one
\* comparison of two buffers of HashLen bytes, the unset-key path against a
\* placeholder as long as a stored hash.
C14_DenialsCompareAlike ==
    (Queried /\ last.ok /\ last.accessor = "none") =>
        last.cmp = << <<HashLen, HashLen>> >>

C14_Witness ==
    /\ Queried
    /\ ~HasKey(Pre, last.msg.address)
    /\ \E a \in Accounts : HasKey(Pre, a)
    /\ last.data.text = DenialPayload
    /\ Len(last.cmp) = 1

\* the key account a stored most recently
CurrentKey(a) == issued[a][Len(issued[a])]

\* C15: after account X's most recent successful create_key or valid set_key
\* stored key k, a query for X with k is authorized and a query for X with any
\* other candidate (a key X stored earlier, a variant of k in one bit) is denied.
C15_CurrentKeyOnly ==
    (Queried /\ issued[last.msg.address] # <<>>) =>
        IF last.msg.key = CurrentKey(last.msg.address) THEN Authorized ELSE Denied

\* the query presents the key the account had stored before its current one
C15_Witness ==
    /\ Queried
    /\ Len(issued[last.msg.address]) = 2
    /\ issued[last.msg.address][1] # issued[last.msg.address][2]
    /\ last.msg.key = issued[last.msg.address][1]
    /\ last.data.text = DenialPayload

\* C16: set_key with a candidate that has not the required length returns a
\* successful response whose log signals the rejection and stores nothing: the
\* caller's viewing-key record and the ledger are as before.
C16_BadLengthRejectedSoftly ==
    (Call("SetViewingKey") /\ Len(last.msg.key) # KeyLength) =>
        /\ last.ok
        /\ last.err = ""
        /\ last.messages = <<>>
        /\ last.log[1] = <<"result", "failed!">>
        /\ storage = Pre

C16_Witness ==
    /\ Call("SetViewingKey")
    /\ Len(last.msg.key) > KeyLength
    /\ HasKey(Pre, Sender)
    /\ last.ok

\* C17: an account that has a viewing-key record has one in every later state,
\* whatever is called, and a key operation of one account leaves the record of
\* every other account as it was.
C17_KeyNeverUnset ==
    [][/\ \A a \in Accounts : HasKey(storage, a) => HasKey(storage', a)
       /\ (last'.entry = "handle" /\ last'.msg.type \in KeyCalls) =>
              \A a \in Accounts \ {last'.env.sender} :
                  KeyRecord(storage', a) = KeyRecord(storage, a)]_vars

\* a key operation of one account on a contract where another account has a key
C17_Witness ==
    /\ last.entry = "handle"
    /\ last.msg.type \in KeyCalls
    /\ last.ok
    /\ KeyRecord(storage, Sender) # KeyRecord(Pre, Sender)
    /\ \E a \in Accounts \ {Sender} : HasKey(Pre, a) /\ HasKey(storage, a)

\* the storage without its viewing keys
StripKeys(store) == [store EXCEPT !.viewing_keys = [a \in Accounts |-> None]]

LedgerCalls ==
    {"Deposit", "Withdraw", "Burn", "Transfer", "TransferFrom", "Approve"}

\* C18: an account's balance decreases in an invocation only if the sender is
\* that account (transfer, withdraw, burn) or the invocation is a transfer_from
\* whose sender held an allowance of the account of at least the debited
\* amount when the call began; the viewing keys neither enable nor block a
\* mutation: the call does to a ledger without keys what it did to this one.
C18_DebitNeedsSenderOrAllowance ==
    last.entry = "handle" =>
        /\ \A a \in Accounts :
              balance(storage, a) < balance(Pre, a) =>
                  \/ /\ Sender = a
                     /\ last.msg.type \in {"Transfer", "Withdraw", "Burn"}
                  \/ /\ last.msg.type = "TransferFrom"
                     /\ last.msg.owner = a
                     /\ allowance(Pre, a, Sender) >= balance(Pre, a) - balance(storage, a)
        /\ last.msg.type \in LedgerCalls =>
              LET r == handle(StripKeys(Pre), last.env, last.msg)
              IN  /\ r.ok = last.ok
                  /\ r.err = last.err
                  /\ host_commit(StripKeys(Pre), r) = StripKeys(storage)

\* the bytes the read slot held
StoredIn(store) ==
    CASE last.data.text = "balance" -> Unwrap(store.balances["A"])
      [] last.data.text = "allowance" -> Unwrap(store.allowances["A"]["B"])
      [] OTHER -> Unwrap(store.total_supply)

\* C19: reading a stored integer (balance, allowance or TotalSupply) whose
\* stored length is not exactly 16 bytes fails with CorruptStorage, for a
\* shorter and for a longer string alike: it yields no value taken from a
\* prefix of the bytes and it does not abort the program.
C19_WrongLengthIsCorruptStorage ==
    (last.entry = "read" /\ Len(StoredIn(Pre)) # U128Len) =>
        /\ ~last.ok
        /\ last.err = "CorruptStorage"

\* name, symbol or decimals of an InitMsg is outside the format
InvalidFormat(msg) ==
    \/ Len(msg.name) \notin 3 .. 30
    \/ Len(msg.symbol) \notin 3 .. 6
    \/ \E i \in 1 .. Len(msg.symbol) : msg.symbol[i] \notin 65 .. 90
    \/ msg.decimals > 18

\* C20: init with a name outside 3-30 bytes, a symbol that is not 3-6
\* uppercase ASCII letters or decimals > 18 fails with InvalidFormat and
\* aborts the setup with nothing written: no initial balance, no Constants and
\* no TotalSupply is stored.
C20_InvalidFormatAbortsInit ==
    (last.entry = "init" /\ InvalidFormat(last.msg)) =>
        /\ ~last.ok
        /\ last.err = "InvalidFormat"
        /\ phase = "failed"
        /\ storage = EmptyStorage

\* a transfer of the sender to itself, within its balance
SelfTransfer ==
    /\ Call("Transfer")
    /\ last.msg.recipient = Sender
    /\ last.msg.amount <= balance(Pre, Sender)

\* a transfer_from whose owner is its recipient, within the owner's balance
SelfTransferFrom ==
    /\ Call("TransferFrom")
    /\ last.msg.recipient = last.msg.owner
    /\ last.msg.amount <= balance(Pre, last.msg.owner)

\* the call succeeded and left every balance and TotalSupply as they were
SucceededNeutral ==
    /\ last.ok
    /\ BalancesUnchangedExcept({})
    /\ SupplyUnchanged

\* C21 as stated: a transfer or transfer_from whose debited account and
\* recipient are the same account, with amount <= that account's balance,
\* succeeds and leaves that balance, every other balance and TotalSupply
\* unchanged.
C21_SelfTransferAsStated ==
    (SelfTransfer \/ SelfTransferFrom) => SucceededNeutral

\* C21: a transfer, or a transfer_from whose sender holds an allowance of at
\* least amount, whose debited account and recipient are the same account,
\* with amount <= that account's balance, succeeds and leaves that balance,
\* every other balance and TotalSupply unchanged.
C21_SelfTransferNeutral ==
    (\/ SelfTransfer
     \/ /\ SelfTransferFrom
        /\ last.msg.amount <= allowance(Pre, last.msg.owner, Sender)) => SucceededNeutral

\* a self-transfer of the sender's whole, largest possible balance
C21_Witness ==
    /\ SelfTransfer
    /\ last.msg.amount = MaxU128
    /\ last.ok
    /\ balance(storage, Sender) = MaxU128

\* the pairs of an owner and a spender with a successful approve behind them
Granted == { p \in Accounts \X Accounts : granted[p[1]][p[2]].approved }

\* C22: over any sequence of operations, between one approve(owner, spender,
\* X) and the next approve for the same pair, the total amount debited from
\* owner by successful transfer_from calls of that spender never exceeds X,
\* and allowance(owner, spender) always equals X minus that total.
C22_AllowanceIsApprovedMinusMoved ==
    \A p \in Granted :
        /\ granted[p[1]][p[2]].moved <= granted[p[1]][p[2]].x
        /\ allowance(storage, p[1], p[2]) =
               granted[p[1]][p[2]].x - granted[p[1]][p[2]].moved

\* after approve(A, B, 2), a second successful transfer_from of 1 by B has
\* used the allowance up
C22_Witness ==
    /\ Call("TransferFrom")
    /\ last.ok
    /\ last.msg.amount = 1
    /\ last.msg.owner # last.msg.recipient
    /\ balance(storage, last.msg.owner) = balance(Pre, last.msg.owner) - 1
    /\ granted[last.msg.owner][Sender] = [x |-> 2, approved |-> TRUE, moved |-> 2]
    /\ allowance(storage, last.msg.owner, Sender) = 0
============================================================================
